---- MODULE Spec2Model ----
(***************************************************************************)
(* A run of scripts/fetch_pr_comments.py: the GitHubPRComments client, its *)
(* paginated REST reads, the GraphQL resolution lookup, the status filter  *)
(* of fetch_all_comments, the reply path (main's --reply branch,           *)
(* reply_to_comment and the POST branch of _make_request) and the exits of *)
(* the process.                                                            *)
(*                                                                         *)
(* A comment is modelled by its REST id (comment.get("id")); a collection  *)
(* on the server is a sequence of ids in the order the API lists them.     *)
(***************************************************************************)
EXTENDS Integers, Sequences, FiniteSets, TLC

VARIABLES
    token,                   \* self.token is truthy (a credential is in effect)
    status,                  \* args.status: "open", "resolved" or "all"
    srv,                     \* what the REST API holds: [pr, issue, review, reviews]
    pc,                      \* position of the run
    page,                    \* _make_request: page
    all_items,               \* _make_request: all_items
    pr_info,                 \* fetch_all_comments: pr_info
    issue_comments,          \* fetch_all_comments: issue_comments
    review_comments,         \* fetch_all_comments: review_comments (reassigned by the filter)
    reviews,                 \* fetch_all_comments: reviews
    fetched_review_comments, \* history: review_comments as get_review_comments returned it
    resolved_comment_ids,    \* fetch_all_comments: resolved_comment_ids
    graph,                   \* history: the answer of the graph API to the one query
    calls,                   \* history: every request handed to urlopen, with its answer
    stderr,                  \* diagnostics printed to sys.stderr, in order
    exit_code,               \* process exit status, -1 while the process runs
    result,                  \* <<d>> once fetch_all_comments returned the dict d, <<>> before
    rendered,                \* main handed the dict to an output path
    args,                    \* main: args (token, reply, comment_type, reply_body, reply_body_file)
    caller,                  \* who calls the client: "main", or "script" for an importing script
    reply_call,              \* reply_to_comment: comment_id, comment_type, reply_body
    req,                     \* _make_request (POST): the Request handed to urlopen
    reply_result,            \* <<c>> once reply_to_comment returned the comment c, <<>> before
    stdout,                  \* lines printed to sys.stdout, in order
    target                   \* main: owner, repo, pr_number (None before they are set)

\* What the aggregation path reads and writes.
fetchVars == <<status, page, all_items, pr_info, issue_comments,
               review_comments, reviews, fetched_review_comments,
               resolved_comment_ids, graph, result, rendered>>

\* What only the reply path reads and writes.
replyVars == <<args, caller, reply_call, req, reply_result>>

\* What main sets before it constructs the client.
targetVars == <<target>>

vars == <<token, status, srv, pc, page, all_items, pr_info, issue_comments,
          review_comments, reviews, fetched_review_comments,
          resolved_comment_ids, graph, calls, stderr, exit_code,
          result, rendered, args, caller, reply_call, req, reply_result,
          stdout, target>>

-----------------------------------------------------------------------------
(* Bounds of the model *)

\* Largest number of full pages a server collection holds.
MaxFullPages == 2
\* Review-comment ids that threads and short collections draw from: 1..MaxId.
MaxId == 3
\* Largest number of review threads in a graph response.
MaxThreads == 2

(* Program constants *)

\* per_page = 100
per_page == 100

None == "none"
\* A thread member whose databaseId is null.
NoId == 0

Min(a, b) == IF a <= b THEN a ELSE b

Range(s) == {s[i] : i \in 1..Len(s)}

\* A collection of n items, ids 1..n in server order.
Collection(n) == [i \in 1..n |-> i]

\* Sizes around the page boundaries: 0, 1, P, P+1, 2P, 2P+1, ...
Sizes == {k * per_page + d : k \in 0..MaxFullPages, d \in 0..1}

StatusFilters == {"open", "resolved", "all"}

-----------------------------------------------------------------------------
(* The HTTP layer *)

\* Status codes a server answers with; 202 stands for a 2xx other than 200
\* and 201.
Statuses == {200, 201, 202, 401, 403, 404, 500}

\* The body of an answer that is not the resource asked for.
ErrorBody == "{\"message\": ...}"

\* The X-RateLimit-Remaining header of an answer, None when it has none;
\* the model lets the 403 answers come with and without it.
RateLimitRemaining(c) == IF c = 403 THEN {None, "0"} ELSE {None}

\* A server's answer to one request: an HTTP status with headers and body,
\* or no answer at all (DNS failure, connection refused).
RestAnswers ==
    UNION {{[kind |-> "http", code |-> c, remaining |-> r,
             body |-> IF c \in {200, 201} THEN "" ELSE ErrorBody] :
               r \in RateLimitRemaining(c)} : c \in Statuses}
        \cup {[kind |-> "transport", code |-> 0, remaining |-> None,
                body |-> ""]}

\* urllib.request.urlopen: a 2xx answer comes back as the response, any other
\* status is raised as HTTPError, a transport failure as URLError. Response
\* and HTTPError both give the status, the headers and the body.
urlopen(ans) ==
    [raised |-> IF ans.kind = "transport" THEN "URLError"
                ELSE IF ans.code >= 200 /\ ans.code <= 299 THEN None
                ELSE "HTTPError",
     code |-> ans.code, remaining |-> ans.remaining, body |-> ans.body]

\* A line on stderr: its format string, the status code it interpolates (0:
\* none) and the header value or body it interpolates ("": none).
Line(msg, code, text) == [msg |-> msg, code |-> code, text |-> text]

Diag(msg, code) == Line(msg, code, "")
\* No diagnostic: the answer is read.
NoDiag == Diag("", 0)

\* page_error without the `elif status_code != 200` branch.
page_error_any_2xx(u) ==
    IF u.raised = "HTTPError"
    THEN <<Diag("Error: HTTP {code} - {reason}", u.code)>>
    ELSE IF u.raised = "URLError" THEN <<Diag("Error: {reason}", 0)>>
    ELSE <<>>

\* _make_request, GET branch: the lines a page's answer leads to before
\* sys.exit(1), <<>> when the page is read.
page_error(u) ==
    IF u.raised = "HTTPError"
    THEN <<Diag("Error: HTTP {code} - {reason}", u.code)>>
    ELSE IF u.raised = "URLError" THEN <<Diag("Error: {reason}", 0)>>
    ELSE IF u.code = 401
         THEN <<Diag("Error: Authentication failed. Check your GitHub token.",
                     0)>>
    ELSE IF u.code = 404
         THEN <<Diag("Error: Not found. Check owner/repo/PR number.", 0)>>
    ELSE IF u.code = 403
         THEN <<Diag("Error: Rate limit exceeded or access denied.", 0)>>
                \o (IF u.remaining # None
                    THEN <<Line("Rate limit remaining: {X-RateLimit-Remaining}",
                                0, u.remaining)>>
                    ELSE <<>>)
    ELSE IF u.code # 200 THEN <<Diag("Error: HTTP {status_code}", u.code)>>
    ELSE <<>>

\* pr_info_error without the `if response.getcode() != 200` check.
pr_info_error_any_2xx(u) ==
    IF u.raised = "HTTPError" THEN Diag("Error: HTTP {code} - {reason}", u.code)
    ELSE IF u.raised = "URLError" THEN Diag("Error: {reason}", 0)
    ELSE NoDiag

\* get_pr_info: the diagnostic the answer leads to, NoDiag when it is read.
pr_info_error(u) ==
    IF u.raised = "HTTPError" THEN Diag("Error: HTTP {code} - {reason}", u.code)
    ELSE IF u.raised = "URLError" THEN Diag("Error: {reason}", 0)
    ELSE IF u.code # 200 THEN Diag("Error: HTTP {status_code}", u.code)
    ELSE NoDiag

\* The REST API's page `p` of a collection, per_page items to the page.
PageOf(coll, p) ==
    SubSeq(coll, (p - 1) * per_page + 1, Min(p * per_page, Len(coll)))

\* _make_request, GET branch: `if not items: break`
empty_page(items) == items = <<>>

\* short_page with the check left out: only an empty page ends the loop.
short_page_never(items) == FALSE

\* _make_request, GET branch: `if len(items) < per_page: break`
short_page(items) == Len(items) < per_page

\* The payload of a request without one.
NoData == [body |-> None, in_reply_to |-> <<>>]

\* A request as the call log keeps it: `data` is what a POST sends.
Sent(api, method, e, p, data, ans) ==
    [api |-> api, method |-> method, endpoint |-> e, page |-> p,
     data |-> data, answer |-> ans]

\* Call for a client that sends every request as a POST.
Call_as_post(api, method, e, p, ans) == Sent(api, "POST", e, p, NoData, ans)

Call(api, method, e, p, ans) == Sent(api, method, e, p, NoData, ans)

\* print(..., file=sys.stderr), once or more; sys.exit(1)
ExitLines(lines) ==
    /\ stderr' = stderr \o lines
    /\ exit_code' = 1
    /\ pc' = "exit"

\* print(..., file=sys.stderr); sys.exit(1)
Exit1(diag) == ExitLines(<<diag>>)

-----------------------------------------------------------------------------
(* The REST reads of fetch_all_comments *)

Fetches == {"get_issue_comments", "get_review_comments", "get_reviews"}

\* The endpoint each read requests, relative to /repos/{owner}/{repo}.
Endpoint(p) ==
    CASE p = "get_pr_info" -> "/pulls/{pr_number}"
      [] p = "get_issue_comments" -> "/issues/{pr_number}/comments"
      [] p = "get_review_comments" -> "/pulls/{pr_number}/comments"
      [] p = "get_reviews" -> "/pulls/{pr_number}/reviews"

\* What the server holds behind the endpoint of a paginated read.
Served(p) ==
    CASE p = "get_issue_comments" -> srv.issue
      [] p = "get_review_comments" -> srv.review
      [] p = "get_reviews" -> srv.reviews

\* AfterFetch without the `if status != "all"` test: the oracle always runs.
AfterFetch_always_resolve(p) ==
    CASE p = "get_pr_info" -> "get_issue_comments"
      [] p = "get_issue_comments" -> "get_review_comments"
      [] p = "get_review_comments" -> "get_reviews"
      [] p = "get_reviews" -> "resolve"

\* AfterFetch with the oracle called right after get_pr_info.
AfterFetch_resolve_early(p) ==
    CASE p = "get_pr_info" -> "resolve"
      [] p = "get_issue_comments" -> "get_review_comments"
      [] p = "get_review_comments" -> "get_reviews"
      [] p = "get_reviews" -> "return"

\* fetch_all_comments: the statement after the read at p.
AfterFetch(p) ==
    CASE p = "get_pr_info" -> "get_issue_comments"
      [] p = "get_issue_comments" -> "get_review_comments"
      [] p = "get_review_comments" -> "get_reviews"
      [] p = "get_reviews" -> IF status # "all" THEN "resolve" ELSE "return"

\* get_pr_info(pr_number)
GetPrInfo ==
    /\ pc = "get_pr_info"
    /\ \E ans \in RestAnswers :
         LET u == urlopen(ans)
             d == pr_info_error(u)
         IN  /\ calls' = Append(calls, Call("rest", "GET", Endpoint(pc), 0, ans))
             /\ IF d # NoDiag
                THEN /\ Exit1(d)
                     /\ UNCHANGED pr_info
                ELSE /\ pr_info' = srv.pr
                     /\ pc' = AfterFetch(pc)
                     /\ UNCHANGED <<stderr, exit_code>>
    /\ UNCHANGED <<token, status, srv, page, all_items, issue_comments,
                   review_comments, reviews, fetched_review_comments,
                   resolved_comment_ids, graph, result, rendered>>
    /\ UNCHANGED replyVars
    /\ UNCHANGED <<stdout, targetVars>>

\* _make_request(endpoint) returns `items` to the read at pc.
ReturnItems(items) ==
    /\ issue_comments' =
          IF pc = "get_issue_comments" THEN items ELSE issue_comments
    /\ review_comments' =
          IF pc = "get_review_comments" THEN items ELSE review_comments
    /\ fetched_review_comments' =
          IF pc = "get_review_comments" THEN items ELSE fetched_review_comments
    /\ reviews' = IF pc = "get_reviews" THEN items ELSE reviews
    /\ pc' = AfterFetch(pc)
    /\ page' = 1
    /\ all_items' = <<>>

\* One turn of the `while True` loop of _make_request (GET): request page
\* `page` of the endpoint, then exit, return or go on to the next page.
RequestPage ==
    /\ pc \in Fetches
    /\ \E ans \in RestAnswers :
         LET u == urlopen(ans)
             lines == page_error(u)
             items == PageOf(Served(pc), page)
         IN  /\ calls' =
                   Append(calls, Call("rest", "GET", Endpoint(pc), page, ans))
             /\ IF lines # <<>>
                THEN /\ ExitLines(lines)
                     /\ UNCHANGED <<page, all_items, issue_comments,
                                    review_comments, reviews,
                                    fetched_review_comments>>
                ELSE /\ UNCHANGED <<stderr, exit_code>>
                     /\ IF empty_page(items)
                        THEN ReturnItems(all_items)
                        ELSE IF short_page(items)
                             THEN ReturnItems(all_items \o items)
                             ELSE /\ all_items' = all_items \o items
                                  /\ page' = page + 1
                                  /\ UNCHANGED <<pc, issue_comments,
                                                 review_comments, reviews,
                                                 fetched_review_comments>>
    /\ UNCHANGED <<token, status, srv, pr_info, resolved_comment_ids, graph,
                   result, rendered>>
    /\ UNCHANGED replyVars
    /\ UNCHANGED <<stdout, targetVars>>

-----------------------------------------------------------------------------
(* The Resolution Oracle: _get_resolved_comment_ids *)

\* The graph API's answer to the query: no answer, a status other than 200,
\* or 200 with a payload that holds the threads, with or without "errors".
GraphAnswers ==
    {[kind |-> "transport", code |-> 0, errors |-> FALSE,
      remaining |-> None, body |-> ""]}
        \cup {[kind |-> "http", code |-> c, errors |-> FALSE,
                remaining |-> None, body |-> ErrorBody] :
                 c \in Statuses \ {200}}
        \cup {[kind |-> "http", code |-> 200, errors |-> e,
                remaining |-> None, body |-> ""] : e \in BOOLEAN}

NoAnswer ==
    [kind |-> "none", code |-> 0, errors |-> FALSE, remaining |-> None,
     body |-> ""]

\* The inner loop: `for comment in comments`, adding each truthy databaseId.
RECURSIVE add_members(_, _)
add_members(comments, resolved_ids) ==
    IF comments = <<>> THEN resolved_ids
    ELSE LET comment_id == Head(comments)
         IN  add_members(Tail(comments),
                         IF comment_id # NoId
                         THEN resolved_ids \cup {comment_id}
                         ELSE resolved_ids)

\* add_threads without the `if is_resolved` test.
RECURSIVE add_threads_all(_, _)
add_threads_all(threads, resolved_ids) ==
    IF threads = <<>> THEN resolved_ids
    ELSE add_threads_all(Tail(threads),
                         add_members(Head(threads).comments, resolved_ids))

\* The outer loop: `for thread in threads`, entering the resolved ones.
RECURSIVE add_threads(_, _)
add_threads(threads, resolved_ids) ==
    IF threads = <<>> THEN resolved_ids
    ELSE LET thread == Head(threads)
         IN  add_threads(Tail(threads),
                         IF thread.isResolved
                         THEN add_members(thread.comments, resolved_ids)
                         ELSE resolved_ids)

\* graph_outcome without the `if "errors" in data` check.
graph_outcome_ignoring_errors(u, errors, threads) ==
    IF u.raised # None
    THEN [ids |-> {},
          diag |-> Diag("Warning: Could not fetch resolved status via GraphQL: {e}", u.code)]
    ELSE IF u.code # 200
    THEN [ids |-> {},
          diag |-> Diag("GraphQL API returned status {code}: {error_body}", u.code)]
    ELSE [ids |-> add_threads(threads, {}),
          diag |-> Diag("Found {total_threads} review threads, {resolved_threads} resolved, {n} resolved comments", 0)]

\* graph_outcome without the `if response.getcode() != 200` check.
graph_outcome_any_2xx(u, errors, threads) ==
    IF u.raised # None
    THEN [ids |-> {},
          diag |-> Diag("Warning: Could not fetch resolved status via GraphQL: {e}", u.code)]
    ELSE IF errors
    THEN [ids |-> {}, diag |-> Diag("GraphQL API errors: {errors}", 0)]
    ELSE [ids |-> add_threads(threads, {}),
          diag |-> Diag("Found {total_threads} review threads, {resolved_threads} resolved, {n} resolved comments", 0)]

\* What the call returns and prints once urlopen has answered.
graph_outcome(u, errors, threads) ==
    IF u.raised # None
    THEN [ids |-> {},
          diag |-> Diag("Warning: Could not fetch resolved status via GraphQL: {e}", u.code)]
    ELSE IF u.code # 200
    THEN [ids |-> {},
          diag |-> Diag("GraphQL API returned status {code}: {error_body}", u.code)]
    ELSE IF errors
    THEN [ids |-> {}, diag |-> Diag("GraphQL API errors: {errors}", 0)]
    ELSE [ids |-> add_threads(threads, {}),
          diag |-> IF Len(threads) > 0
                   THEN Diag("Found {total_threads} review threads, {resolved_threads} resolved, {n} resolved comments", 0)
                   ELSE Diag("Warning: No review threads found via GraphQL. Showing all comments.", 0)]

\* no_token_outcome for an oracle that degrades without a word.
no_token_outcome_silent == [ids |-> {}, diag |-> NoDiag]

\* _get_resolved_comment_ids, `if not self.token`: the warning and the set.
no_token_outcome ==
    [ids |-> {},
     diag |-> Diag("Warning: No GitHub token provided. Cannot check resolved status. Showing all comments.", 0)]

\* ResolveNoToken for a client that cannot aggregate without a token.
ResolveNoToken_fatal ==
    /\ pc = "resolve"
    /\ ~token
    /\ Exit1(Diag("Error: GitHub token is required", 0))
    /\ UNCHANGED <<token, srv, calls>>
    /\ UNCHANGED fetchVars
    /\ UNCHANGED replyVars
    /\ UNCHANGED <<stdout, targetVars>>

\* `if not self.token`: warn and return the empty set, no request made.
ResolveNoToken ==
    /\ pc = "resolve"
    /\ ~token
    /\ stderr' = Append(stderr, no_token_outcome.diag)
    /\ resolved_comment_ids' = no_token_outcome.ids
    /\ pc' = "filter"
    /\ UNCHANGED <<token, status, srv, page, all_items, pr_info,
                   issue_comments, review_comments, reviews,
                   fetched_review_comments, graph, calls, exit_code,
                   result, rendered>>
    /\ UNCHANGED replyVars
    /\ UNCHANGED <<stdout, targetVars>>

\* The one POST to the graph API and the handling of its answer.
GraphQuery ==
    /\ pc = "resolve"
    /\ token
    /\ \E ans \in GraphAnswers :
         LET u == urlopen(ans)
             out == graph_outcome(u, ans.errors, srv.threads)
         IN  /\ calls' =
                   Append(calls, Call("graphql", "POST", "/graphql", 0, ans))
             /\ graph' = ans
             /\ stderr' = Append(stderr, out.diag)
             /\ resolved_comment_ids' = out.ids
    /\ pc' = "filter"
    /\ UNCHANGED <<token, status, srv, page, all_items, pr_info,
                   issue_comments, review_comments, reviews,
                   fetched_review_comments, exit_code, result, rendered>>
    /\ UNCHANGED replyVars
    /\ UNCHANGED <<stdout, targetVars>>

-----------------------------------------------------------------------------
(* fetch_all_comments: filter and return; main: output *)

\* One turn of the loop over review_comments: the comment is appended to
\* filtered_review_comments.
keeps(comment_id, resolved_ids, st) ==
    LET is_resolved == IF resolved_ids # {}
                       THEN comment_id \in resolved_ids
                       ELSE FALSE
    IN  IF st = "open" /\ ~is_resolved THEN TRUE
        ELSE IF st = "resolved" /\ is_resolved THEN TRUE
        ELSE FALSE

\* filter_review_comments with the two status branches exchanged.
filter_review_comments_exchanged(comments, resolved_ids, st) ==
    SelectSeq(comments,
              LAMBDA c : keeps(c, resolved_ids,
                               IF st = "open" THEN "resolved" ELSE "open"))

\* The loop over review_comments: filtered_review_comments holds, in order,
\* the comments the loop body appends.
filter_review_comments(comments, resolved_ids, st) ==
    SelectSeq(comments, LAMBDA c : keeps(c, resolved_ids, st))

\* Lines after the oracle returned: filter, reassign, print what was done.
Filter ==
    /\ pc = "filter"
    /\ review_comments' =
          filter_review_comments(review_comments, resolved_comment_ids, status)
    /\ stderr' = Append(stderr,
          IF status = "open"
          THEN Diag("Filtering to show only open (unresolved) comments...", 0)
          ELSE Diag("Filtering to show only resolved comments...", 0))
    /\ pc' = "return"
    /\ UNCHANGED <<token, status, srv, page, all_items, pr_info,
                   issue_comments, reviews, fetched_review_comments,
                   resolved_comment_ids, graph, calls, exit_code,
                   result, rendered>>
    /\ UNCHANGED replyVars
    /\ UNCHANGED <<stdout, targetVars>>

\* aggregate with the filtered list also put under "reviews".
aggregate_reviews_overwritten(info, ic, rc, rv) ==
    [pr_info |-> info, issue_comments |-> ic, review_comments |-> rc,
     reviews |-> rc]

\* The dict of the return statement.
aggregate(info, ic, rc, rv) ==
    [pr_info |-> info, issue_comments |-> ic, review_comments |-> rc,
     reviews |-> rv]

\* `return {...}`: the dict handed back to main.
Return ==
    /\ pc = "return"
    /\ result' =
          <<aggregate(pr_info, issue_comments, review_comments, reviews)>>
    /\ pc' = "render"
    /\ UNCHANGED <<token, status, srv, page, all_items, pr_info,
                   issue_comments, review_comments, reviews,
                   fetched_review_comments, resolved_comment_ids, graph,
                   calls, stderr, exit_code, rendered>>
    /\ UNCHANGED replyVars
    /\ UNCHANGED <<stdout, targetVars>>

-----------------------------------------------------------------------------
(* The output paths of main *)

\* comment.get("body", ""): what the API gave for the body of the comment
\* `id` of a kind; the default of get() is for a missing key, a null stays
\* None.
body_of(world, kind, id) ==
    IF <<kind, id>> \in world.null_body THEN None
    ELSE IF <<kind, id>> \in world.empty_body THEN ""
    ELSE "LGTM"

\* main: the output path the options choose, --json before --csv before
\* --table.
output_path(a) ==
    IF a.json THEN "json"
    ELSE IF a.csv # None THEN "csv"
    ELSE IF a.table THEN "table"
    ELSE "text"

\* format_comment: `if body is None: body = ""`, then the body or, for a
\* falsy one, the placeholder of the kind.
format_comment(body, kind) ==
    LET b == IF body = None THEN "" ELSE body
    IN  IF b # ""
        THEN b
        ELSE IF kind = "review" THEN "(No review body)"
             ELSE "(No comment text)"

\* print_table_view: truncate(text), `if not text: return ""`.
truncate(text) == IF text = None \/ text = "" THEN "" ELSE text

\* json.dumps of a body: None is written as null, a string in quotes.
json_dumps(body) ==
    IF body = None THEN "null"
    ELSE IF body = "" THEN "\"\"" ELSE "\"LGTM\""

\* print_csv_view: comment.get("body", "").replace(...); None has no
\* replace.
csv_cell(body) ==
    IF body = None
    THEN [raised |-> "AttributeError: 'NoneType' object has no attribute 'replace'",
          cell |-> ""]
    ELSE [raised |-> None, cell |-> body]

\* One line of output for a comment.
Row(kind, id, body) == [kind |-> kind, id |-> id, body |-> body]

\* The body as an output path puts it on a line; the CSV path's cell may
\* raise.
cell_of(path, kind, body) ==
    CASE path = "text" -> format_comment(body, kind)
      [] path = "table" -> truncate(body)
      [] path = "json" -> json_dumps(body)
      [] path = "csv" -> csv_cell(body)

\* A loop of an output path over one list of the dict: a row per comment,
\* the body as the path shows it.
rows_of(path, kind, items, world) ==
    [i \in 1..Len(items) |->
        Row(kind, items[i],
            cell_of(path, kind, body_of(world, kind, items[i])))]

\* print_all_comments: format_comment for every comment and review.
print_all_comments(d, world) ==
    [raised |-> None,
     rows |-> rows_of("text", "issue", d.issue_comments, world)
              \o rows_of("text", "review_comment", d.review_comments, world)
              \o rows_of("text", "review", d.reviews, world)]

\* print_table_view: the issue comments and the review comments, reviews
\* are not shown.
print_table_view(d, world) ==
    [raised |-> None,
     rows |-> rows_of("table", "issue", d.issue_comments, world)
              \o rows_of("table", "review_comment", d.review_comments,
                         world)]

\* The rows written before the first cell that raises, and what it raises.
written(cells, raising) ==
    IF raising = <<>>
    THEN [raised |-> None,
          rows |-> [i \in 1..Len(cells) |->
                      Row(cells[i].kind, cells[i].id, cells[i].body.cell)]]
    ELSE LET stop == CHOOSE i \in 1..Len(cells) : cells[i] = raising[1]
         IN  [raised |-> raising[1].body.raised,
              rows |-> [i \in 1..(stop - 1) |->
                          Row(cells[i].kind, cells[i].id, cells[i].body.cell)]]

\* print_csv_view: a row per comment and review, written as it is built; the
\* first body that raises ends the output there.
print_csv_view(d, world) ==
    LET cells == rows_of("csv", "issue", d.issue_comments, world)
                 \o rows_of("csv", "review_comment", d.review_comments,
                            world)
                 \o rows_of("csv", "review", d.reviews, world)
    IN  written(cells, SelectSeq(cells, LAMBDA c : c.body.raised # None))

\* main, `if args.json`: the dict rebuilt with c.get("body", "") and dumped.
print_json(d, world) ==
    [raised |-> None,
     rows |-> rows_of("json", "issue", d.issue_comments, world)
              \o rows_of("json", "review_comment", d.review_comments, world)
              \o rows_of("json", "review", d.reviews, world)]

\* main: the dict goes to one output path, and main returns; an exception
\* of the output path is not caught and ends the process with a traceback.
Render ==
    /\ pc = "render"
    /\ rendered' = TRUE
    /\ LET path == output_path(args)
           out == CASE path = "json" -> print_json(result[1], srv)
                    [] path = "csv" -> print_csv_view(result[1], srv)
                    [] path = "table" -> print_table_view(result[1], srv)
                    [] path = "text" -> print_all_comments(result[1], srv)
       IN  /\ stdout' = stdout \o out.rows
           /\ IF out.raised = None
              THEN /\ exit_code' = 0
                   /\ pc' = "done"
                   /\ UNCHANGED stderr
              ELSE /\ exit_code' = 1
                   /\ pc' = "crashed"
                   /\ stderr' = Append(stderr, Diag(out.raised, 0))
    /\ UNCHANGED <<token, status, srv, page, all_items, pr_info,
                   issue_comments, review_comments, reviews,
                   fetched_review_comments, resolved_comment_ids, graph,
                   calls, result>>
    /\ UNCHANGED <<replyVars, targetVars>>

\* main, `if args.detail:` (after the reply branch): --comment-type is
\* required, then client.get_comment_by_id is called, a method the class
\* does not define: the attribute lookup raises AttributeError, nothing
\* catches it, and the lines after the call are never reached.
Detail ==
    /\ pc = "main"
    /\ args.reply = 0
    /\ args.detail # 0
    /\ IF args.comment_type = None
       THEN Exit1(Diag("Error: --comment-type is required with --detail", 0))
       ELSE /\ stderr' = Append(stderr,
                 Diag("AttributeError: 'GitHubPRComments' object has no attribute 'get_comment_by_id'", 0))
            /\ exit_code' = 1
            /\ pc' = "crashed"
    /\ UNCHANGED <<token, srv, calls, stdout>>
    /\ UNCHANGED <<fetchVars, replyVars, targetVars>>

\* main, neither --reply nor --detail given: it calls fetch_all_comments,
\* which first prints its progress line.
BeginFetch ==
    /\ pc = "main"
    /\ args.reply = 0
    /\ args.detail = 0
    /\ stderr' = Append(stderr, Diag("Fetching comments for PR #{pr_number}...", 0))
    /\ pc' = "get_pr_info"
    /\ UNCHANGED <<token, status, srv, page, all_items, pr_info,
                   issue_comments, review_comments, reviews,
                   fetched_review_comments, resolved_comment_ids, graph,
                   calls, exit_code, result, rendered>>
    /\ UNCHANGED replyVars
    /\ UNCHANGED <<stdout, targetVars>>

-----------------------------------------------------------------------------
(* The reply path: main's `if args.reply:` branch, reply_to_comment and the *)
(* POST branch of _make_request                                             *)

\* --comment-type: choices=["issue", "review_comment", "review"]
CommentTypes == {"issue", "review_comment", "review"}

\* The files --reply-body-file names: an empty one, one with text, and one
\* that does not exist.
BodyFiles == {"empty.md", "reply.md", "missing.md"}

exists(path) == path # "missing.md"

\* open(path, "r", encoding="utf-8").read()
read(path) == IF path = "reply.md" THEN "Thanks, fixed." ELSE ""

\* Truth value of an optional string: None and "" are false.
truthy(str) == str # None /\ str # ""

\* reply_to_comment has not been called.
NoCall == [comment_id |-> 0, comment_type |-> None, reply_body |-> None]

\* No request has been built.
NoReq == [endpoint |-> "", data |-> NoData, auth |-> FALSE]

\* token_missing for a client that posts with or without a credential.
token_missing_never(t) == FALSE

\* reply_to_comment: `if not self.token`
token_missing(t) == ~t

\* reply_to_comment: the endpoint of each comment type, relative to
\* /repos/{owner}/{repo}.
reply_endpoint(kind, id) ==
    CASE kind = "review_comment" ->
           "/pulls/{pr_number}/comments/" \o ToString(id) \o "/replies"
      [] kind = "issue" -> "/issues/{pr_number}/comments"
      [] kind = "review" -> "/issues/{pr_number}/comments"

\* reply_data without the "in_reply_to" key.
reply_data_body_only(kind, id, body) == [body |-> body, in_reply_to |-> <<>>]

\* reply_to_comment: the payload of each comment type; in_reply_to is <<>>
\* when the dict has no such key.
reply_data(kind, id, body) ==
    CASE kind = "review_comment" -> [body |-> body, in_reply_to |-> <<>>]
      [] kind = "issue" -> [body |-> body, in_reply_to |-> <<id>>]
      [] kind = "review" -> [body |-> body, in_reply_to |-> <<>>]

ReviewWarning ==
    Diag("Warning: Reviews cannot be directly replied to. Posting as issue comment instead.", 0)

\* reply_warning for a client that degrades in silence.
reply_warning_none(kind) == <<>>

\* reply_to_comment: what is printed before the request is built.
reply_warning(kind) == IF kind = "review" THEN <<ReviewWarning>> ELSE <<>>

\* unknown_type_error without the f-string's {comment_type}.
unknown_type_error_unnamed(kind) ==
    Line("Error: Unknown comment type", 0, "")

\* reply_to_comment: the line of the `else` branch, naming the type.
unknown_type_error(kind) ==
    Line("Error: Unknown comment type: {comment_type}", 0, kind)

\* post_error with `elif status_code != 200` for the last status test.
post_error_only_200(u) ==
    IF u.raised = "HTTPError"
    THEN <<Diag("Error: HTTP {code}: {reason}", u.code),
           Line("Response: {error_body}", 0, u.body)>>
    ELSE IF u.raised = "URLError"
    THEN <<Diag("Error: Failed to connect to GitHub API: {reason}", 0)>>
    ELSE IF u.code # 200
         THEN <<Diag("Error: HTTP {status_code}", u.code),
                Line("Response: {error_body}", 0, u.body)>>
    ELSE <<>>

\* post_error with URLError handled by the HTTPError handler's message.
post_error_one_handler(u) ==
    IF u.raised \in {"HTTPError", "URLError"}
    THEN <<Diag("Error: HTTP {code}: {reason}", u.code),
           Line("Response: {error_body}", 0, u.body)>>
    ELSE IF u.code \notin {200, 201}
         THEN <<Diag("Error: HTTP {status_code}", u.code),
                Line("Response: {error_body}", 0, u.body)>>
    ELSE <<>>

\* _make_request, POST branch: the lines the answer leads to before
\* sys.exit(1), <<>> when the response is read and returned.
post_error(u) ==
    IF u.raised = "HTTPError"
    THEN <<Diag("Error: HTTP {code}: {reason}", u.code),
           Line("Response: {error_body}", 0, u.body)>>
    ELSE IF u.raised = "URLError"
    THEN <<Diag("Error: Failed to connect to GitHub API: {reason}", 0)>>
    ELSE IF u.code = 401
         THEN <<Diag("Error: Authentication failed. Check your GitHub token.",
                     0)>>
    ELSE IF u.code = 404
         THEN <<Diag("Error: Not found. Check owner/repo/PR number/comment ID.",
                     0)>>
    ELSE IF u.code = 403
         THEN <<Diag("Error: Rate limit exceeded or access denied.", 0)>>
                \o (IF u.remaining # None
                    THEN <<Line("Rate limit remaining: {X-RateLimit-Remaining}",
                                0, u.remaining)>>
                    ELSE <<>>)
    ELSE IF u.code \notin {200, 201}
         THEN <<Diag("Error: HTTP {status_code}", u.code),
                Line("Response: {error_body}", 0, u.body)>>
    ELSE <<>>

\* What the API holds once it has created the comment a POST asked for: a
\* reply joins the review comments, an issue-level comment the issue comments.
created(world, e) ==
    IF e = "/issues/{pr_number}/comments"
    THEN [world EXCEPT !.issue = Append(@, Len(@) + 1)]
    ELSE [world EXCEPT !.review = Append(@, Len(@) + 1)]

\* The comment the API answers a successful POST with.
new_comment(world, e, data) ==
    [id |-> IF e = "/issues/{pr_number}/comments"
            THEN Len(world.issue) + 1 ELSE Len(world.review) + 1,
     body |-> data.body]

\* main, --reply given: the three argument checks, the read of the body file
\* and the call of reply_to_comment.
ReplyArgs ==
    /\ pc = "main"
    /\ args.reply # 0
    /\ IF args.comment_type = None
       THEN /\ Exit1(Diag("Error: --comment-type is required with --reply", 0))
            /\ UNCHANGED reply_call
       ELSE IF ~truthy(args.reply_body) /\ ~truthy(args.reply_body_file)
       THEN /\ Exit1(Diag("Error: --reply-body or --reply-body-file is required with --reply", 0))
            /\ UNCHANGED reply_call
       ELSE IF ~args.token
       THEN /\ Exit1(Diag("Error: --token is required for --reply", 0))
            /\ UNCHANGED reply_call
       ELSE IF truthy(args.reply_body_file) /\ ~exists(args.reply_body_file)
       THEN /\ Exit1(Diag("FileNotFoundError: [Errno 2] No such file or directory", 0))
            /\ UNCHANGED reply_call
       ELSE /\ reply_call' =
                  [comment_id |-> args.reply,
                   comment_type |-> args.comment_type,
                   reply_body |-> IF truthy(args.reply_body_file)
                                  THEN read(args.reply_body_file)
                                  ELSE args.reply_body]
            /\ pc' = "reply_to_comment"
            /\ UNCHANGED <<stderr, exit_code>>
    /\ UNCHANGED <<token, srv, calls, args, caller, req, reply_result, stdout>>
    /\ UNCHANGED fetchVars
    /\ UNCHANGED targetVars

\* reply_to_comment up to its call of _make_request: the credential check,
\* the choice of endpoint and payload, the warning for a review.
ReplyToComment ==
    /\ pc = "reply_to_comment"
    /\ IF token_missing(token)
       THEN /\ Exit1(Diag("Error: GitHub token is required for posting replies", 0))
            /\ UNCHANGED req
       ELSE IF reply_call.comment_type \in CommentTypes
       THEN /\ stderr' = stderr \o reply_warning(reply_call.comment_type)
            /\ req' = [endpoint |-> reply_endpoint(reply_call.comment_type,
                                                  reply_call.comment_id),
                       data |-> reply_data(reply_call.comment_type,
                                           reply_call.comment_id,
                                           reply_call.reply_body),
                       auth |-> token]
            /\ pc' = "post"
            /\ UNCHANGED exit_code
       ELSE /\ Exit1(unknown_type_error(reply_call.comment_type))
            /\ UNCHANGED req
    /\ UNCHANGED <<token, srv, calls, args, caller, reply_call, reply_result,
                   stdout>>
    /\ UNCHANGED fetchVars
    /\ UNCHANGED targetVars

\* The run is about to hand a request to urlopen in the POST branch.
may_post_again == pc \in {"post", "exit"} /\ req # NoReq /\ Len(calls) < 2

\* The run is about to hand `req` to urlopen in the POST branch.
may_post == pc = "post"

\* _make_request(endpoint, method="POST", data=data): one request; the
\* process exits on a failure, the decoded response is returned otherwise.
PostRequest ==
    /\ may_post
    /\ \E ans \in RestAnswers :
         LET u == urlopen(ans)
             lines == post_error(u)
         IN  /\ calls' = Append(calls, Sent("rest", "POST", req.endpoint, 0,
                                            req.data, ans))
             /\ IF lines # <<>>
                THEN /\ ExitLines(lines)
                     /\ UNCHANGED <<srv, reply_result>>
                ELSE /\ srv' = created(srv, req.endpoint)
                     /\ reply_result' =
                           <<new_comment(srv, req.endpoint, req.data)>>
                     /\ pc' = IF caller = "main" THEN "replied" ELSE "returned"
                     /\ UNCHANGED <<stderr, exit_code>>
    /\ UNCHANGED <<token, args, caller, reply_call, req, stdout>>
    /\ UNCHANGED fetchVars
    /\ UNCHANGED targetVars

\* The server accepts the connection and never sends a response.
NoResponse ==
    [kind |-> "silent", code |-> 0, errors |-> FALSE, remaining |-> None,
     body |-> ""]

\* The request of the call site the run is at, left without a response.
pending ==
    CASE pc = "get_pr_info" -> Call("rest", "GET", Endpoint(pc), 0, NoResponse)
      [] pc \in Fetches -> Call("rest", "GET", Endpoint(pc), page, NoResponse)
      [] pc = "resolve" -> Call("graphql", "POST", "/graphql", 0, NoResponse)
      [] pc = "post" ->
            Sent("rest", "POST", req.endpoint, 0, req.data, NoResponse)

\* urlopen(req) is called without a timeout at every call site and no
\* default socket timeout is set: when the server never answers, the
\* call does not return and no line after it is reached.
Unanswered ==
    /\ \/ pc \in Fetches \cup {"get_pr_info"}
       \/ pc = "resolve" /\ token
       \/ may_post
    /\ calls' = Append(calls, pending)
    /\ pc' = "blocked"
    /\ UNCHANGED <<token, srv, stderr, exit_code, stdout>>
    /\ UNCHANGED <<fetchVars, replyVars, targetVars>>

\* ReplyPosted without the sys.exit(0): main goes on to fetch_all_comments.
ReplyPosted_falls_through ==
    /\ pc = "replied"
    /\ stdout' = stdout \o <<"Reply posted successfully!",
                             "Comment ID: {id}", "URL: {html_url}">>
    /\ stderr' = Append(stderr,
                        Diag("Fetching comments for PR #{pr_number}...", 0))
    /\ pc' = "get_pr_info"
    /\ UNCHANGED <<token, srv, calls, exit_code, args, caller, reply_call,
                   req, reply_result>>
    /\ UNCHANGED fetchVars
    /\ UNCHANGED targetVars

\* main after reply_to_comment returned: three lines on stdout, sys.exit(0).
ReplyPosted ==
    /\ pc = "replied"
    /\ stdout' = stdout \o <<"Reply posted successfully!",
                             "Comment ID: {id}", "URL: {html_url}">>
    /\ exit_code' = 0
    /\ pc' = "done"
    /\ UNCHANGED <<token, srv, calls, stderr, args, caller, reply_call, req,
                   reply_result>>
    /\ UNCHANGED fetchVars
    /\ UNCHANGED targetVars

-----------------------------------------------------------------------------
(* main before the client is constructed: the positional arguments and      *)
(* parse_pr_url. A string is modelled by its segments between the "/".      *)

\* Segments that start with "http": str.startswith("http").
HttpPrefixed == {"http:", "https:", "httpie"}

\* Segments that end with the text github.com, which is where the pattern
\* github\.com/ can match.
GithubSuffixed == {"github.com", "www.github.com", "notgithub.com"}

\* (\d+) at the start of a segment: its longest prefix of digits, "" when it
\* does not start with a digit.
digits(seg) ==
    CASE seg = "42" -> "42"
      [] seg = "42abc" -> "42"
      [] seg = "007" -> "007"
      [] OTHER -> ""

\* int() of a string of digits.
int(d) == CASE d = "42" -> 42 [] d = "007" -> 7

\* The pattern github\.com/([^/]+)/([^/]+)/pull/(\d+) matches with the text
\* github.com at the end of segment i.
match_at(url, i) ==
    /\ i + 4 <= Len(url)
    /\ url[i] \in GithubSuffixed
    /\ url[i + 1] # ""
    /\ url[i + 2] # ""
    /\ url[i + 3] = "pull"
    /\ digits(url[i + 4]) # ""

NoTarget == [owner |-> "", repo |-> "", pr_number |-> 0]

\* parse_pr_url: re.search takes the leftmost match; no match raises
\* ValueError.
parse_pr_url(url) ==
    LET M == {i \in 1..Len(url) : match_at(url, i)}
    IN  IF M = {}
        THEN [raised |-> "ValueError", groups |-> NoTarget]
        ELSE LET i == CHOOSE m \in M : \A n \in M : m <= n
             IN  [raised |-> None,
                  groups |-> [owner |-> url[i + 1], repo |-> url[i + 2],
                              pr_number |-> int(digits(url[i + 4]))]]

\* main from parse_args to the construction of the client: no positional
\* argument, a URL, or owner, repo and number.
ParseTarget ==
    /\ pc = "parse_target"
    /\ IF args.owner_or_url = <<>>
       THEN /\ stdout' = Append(stdout, "usage: fetch_pr_comments.py ...")
            /\ exit_code' = 1
            /\ pc' = "exit"
            /\ UNCHANGED <<stderr, target>>
       ELSE IF args.owner_or_url[1] \in HttpPrefixed
       THEN LET parsed == parse_pr_url(args.owner_or_url)
            IN  IF parsed.raised = None
                THEN /\ target' = parsed.groups
                     /\ pc' = "main"
                     /\ UNCHANGED <<stdout, stderr, exit_code>>
                ELSE /\ Exit1(Diag("Error: Invalid PR URL format: {url}", 0))
                     /\ UNCHANGED <<stdout, target>>
       ELSE IF args.repo = None \/ args.repo = "" \/ args.pr_number = 0
       THEN /\ Exit1(Diag("Error: Must provide both repo and pr_number when using owner format", 0))
            /\ stdout' = Append(stdout, "usage: fetch_pr_comments.py ...")
            /\ UNCHANGED target
       ELSE /\ target' = [owner |-> args.owner_or_url[1], repo |-> args.repo,
                          pr_number |-> args.pr_number]
            /\ pc' = "main"
            /\ UNCHANGED <<stdout, stderr, exit_code>>
    /\ UNCHANGED <<token, srv, calls>>
    /\ UNCHANGED <<fetchVars, replyVars>>

-----------------------------------------------------------------------------
(* The servers a run can meet *)

RECURSIVE Ascending(_)
Ascending(S) ==
    IF S = {} THEN <<>>
    ELSE LET m == CHOOSE x \in S : \A y \in S : x <= y
         IN  <<m>> \o Ascending(S \ {m})

Descending(n) == [i \in 1..n |-> n + 1 - i]

\* Every way of putting comments 1..MaxId into at most MaxThreads threads
\* (0: in no thread), no thread empty.
ThreadOf ==
    {f \in [1..MaxId -> 0..MaxThreads] :
        \E n \in 0..MaxThreads : {f[i] : i \in 1..MaxId} \ {0} = 1..n}

NumThreads(f) == Cardinality({f[i] : i \in 1..MaxId} \ {0})

\* The reviewThreads nodes for a placement f and resolved flags r; with
\* `nullFirst` the first thread also lists a comment without databaseId.
ThreadNodes(f, r, nullFirst) ==
    [t \in 1..NumThreads(f) |->
        [isResolved |-> r[t],
         comments |-> (IF nullFirst /\ t = 1 THEN <<NoId>> ELSE <<>>)
                        \o Ascending({i \in 1..MaxId : f[i] = t})]]

ThreadLists ==
    {ThreadNodes(f, r, z) :
        f \in ThreadOf, r \in [1..MaxThreads -> BOOLEAN], z \in BOOLEAN}

World(issue, review, revs, threads) ==
    [pr |-> "pr", issue |-> issue, review |-> review, reviews |-> revs,
     threads |-> threads, null_body |-> {}, empty_body |-> {}]

\* Collections of every size around the page boundaries; the first review
\* comment, if any, sits in a resolved thread.
PageWorlds ==
    {World(Collection(a), Collection(b), Collection(c),
           IF b = 0 THEN <<>>
           ELSE <<[isResolved |-> TRUE, comments |-> <<1>>]>>) :
        a \in Sizes, b \in Sizes, c \in Sizes}

\* Short collections, review comments newest first, every thread list.
ThreadWorlds ==
    {World(Collection(2), Descending(k), Collection(1), th) :
        k \in 0..MaxId, th \in ThreadLists}

\* What a reply run finds on the server.
ReplyWorld == World(Collection(1), Collection(1), Collection(1), <<>>)

\* main's args without --reply, parsed from a command line with or without
\* --token.
FetchArgs(t) ==
    [token |-> t, reply |-> 0, comment_type |-> None, reply_body |-> None,
     reply_body_file |-> None, detail |-> 0, json |-> FALSE, csv |-> None,
     table |-> FALSE, owner_or_url |-> <<"acme">>, repo |-> "widget",
     pr_number |-> 42]

\* main's args with --reply COMMENT_ID: every mix of the other options.
ReplyArgSets ==
    [token : BOOLEAN, reply : 1..MaxId,
     comment_type : CommentTypes \cup {None},
     reply_body : {None, "", "LGTM"},
     reply_body_file : {None} \cup BodyFiles,
     detail : {0}, json : {FALSE}, csv : {None}, table : {FALSE},
     owner_or_url : {<<"acme">>}, repo : {"widget"}, pr_number : {42}]

\* main's args with --detail COMMENT_ID, with or without --comment-type and
\* --json.
DetailArgSets ==
    {[FetchArgs(t) EXCEPT !.detail = d, !.comment_type = k, !.json = j] :
        t \in BOOLEAN, d \in 1..MaxId, k \in CommentTypes \cup {None},
        j \in BOOLEAN}

\* main's args with every mix of the output options; --csv without a file
\* writes to stdout.
OutputArgSets ==
    {[FetchArgs(FALSE) EXCEPT !.json = j, !.csv = c, !.table = t] :
        j \in BOOLEAN, c \in {None, ""}, t \in BOOLEAN}

\* A short pull request some of whose comments have a null or an empty
\* body.
OutputWorlds ==
    LET w == World(Collection(2), Collection(1), Collection(1), <<>>)
        cs == {<<"issue", 1>>, <<"issue", 2>>, <<"review_comment", 1>>,
               <<"review", 1>>}
    IN  {[w EXCEPT !.null_body = n, !.empty_body = e] :
            n \in SUBSET cs, e \in {{}, {<<"issue", 1>>}, cs}}

\* URLs of a pull request page and strings close to one: another host, an
\* empty owner or repository, another verb, a number with a suffix or
\* without a digit, a trailing segment.
Urls ==
    {<<"https:", "", h, o, r, v, n>> \o tail :
        h \in {"github.com", "example.com", "notgithub.com"},
        o \in {"acme", ""}, r \in {"widget", ""}, v \in {"pull", "pulls"},
        n \in {"42", "007", "42abc", "abc", ""},
        tail \in {<<>>, <<"files">>}}
    \cup {<<"https:", "", "github.com">>,
          <<"https:", "", "github.com", "acme", "widget">>,
          <<"https:", "", "github.com", "acme", "widget", "pull">>,
          <<"http:", "", "www.github.com", "acme", "widget", "pull", "42">>,
          <<"https:", "", "example.com", "github.com", "acme", "widget",
            "pull", "42">>,
          <<"https:", "", "github.com", "acme", "pull", "pull", "42",
            "pull", "007">>,
          <<"httpie">>}

\* main's positional arguments: nothing, a URL, or an owner with or without
\* the repository and the number.
TargetArgSets ==
    {[FetchArgs(FALSE) EXCEPT !.owner_or_url = u, !.repo = None,
                              !.pr_number = 0] : u \in Urls \cup {<<>>}}
    \cup {[FetchArgs(FALSE) EXCEPT !.owner_or_url = <<"acme">>, !.repo = r,
                                   !.pr_number = n] :
             r \in {None, "widget"}, n \in {0, 42}}

\* The comment types a script hands to reply_to_comment: the three the
\* method knows and one it does not.
ScriptTypes == CommentTypes \cup {"discussion"}

\* The state once the client is constructed: main is about to dispatch on its
\* args (an aggregation run or a reply run), or a script that imported the
\* class is about to call reply_to_comment. self.token is args.token or, if
\* that is falsy, the GITHUB_TOKEN of the environment.
Init ==
    /\ \/ /\ srv \in PageWorlds
          /\ token \in BOOLEAN
          /\ status \in StatusFilters
          /\ args = FetchArgs(token)
          /\ caller = "main" /\ pc = "main"
          /\ reply_call = NoCall
       \/ /\ srv \in ThreadWorlds
          /\ token = TRUE
          /\ status \in {"open", "resolved"}
          /\ args = FetchArgs(token)
          /\ caller = "main" /\ pc = "main"
          /\ reply_call = NoCall
       \/ /\ srv = ReplyWorld
          /\ args \in ReplyArgSets
          /\ token \in {t \in BOOLEAN : args.token => t}
          /\ status = "open"
          /\ caller = "main" /\ pc = "main"
          /\ reply_call = NoCall
       \/ /\ srv = ReplyWorld
          /\ token \in BOOLEAN
          /\ args = FetchArgs(token)
          /\ status = "open"
          /\ caller = "script" /\ pc = "reply_to_comment"
          /\ reply_call \in [comment_id : 1..MaxId,
                              comment_type : ScriptTypes,
                              reply_body : {"", "LGTM"}]
       \/ /\ srv = ReplyWorld
          /\ args \in DetailArgSets
          /\ token = args.token
          /\ status = "open"
          /\ caller = "main" /\ pc = "main"
          /\ reply_call = NoCall
       \/ /\ srv \in OutputWorlds
          /\ args \in OutputArgSets
          /\ token = FALSE
          /\ status = "all"
          /\ caller = "main" /\ pc = "main"
          /\ reply_call = NoCall
       \/ /\ srv = ReplyWorld
          /\ args \in TargetArgSets
          /\ token = FALSE
          /\ status = "all"
          /\ caller = "main" /\ pc = "parse_target"
          /\ reply_call = NoCall
    /\ target = IF pc = "parse_target" THEN NoTarget
                ELSE [owner |-> "acme", repo |-> "widget", pr_number |-> 42]
    /\ req = NoReq
    /\ reply_result = <<>>
    /\ stdout = <<>>
    /\ page = 1
    /\ all_items = <<>>
    /\ pr_info = None
    /\ issue_comments = <<>>
    /\ review_comments = <<>>
    /\ reviews = <<>>
    /\ fetched_review_comments = <<>>
    /\ resolved_comment_ids = {}
    /\ graph = NoAnswer
    /\ calls = <<>>
    /\ stderr = <<>>
    /\ exit_code = -1
    /\ result = <<>>
    /\ rendered = FALSE

Next ==
    \/ ParseTarget
    \/ Detail
    \/ BeginFetch
    \/ GetPrInfo
    \/ RequestPage
    \/ ResolveNoToken
    \/ GraphQuery
    \/ Filter
    \/ Return
    \/ Render
    \/ ReplyArgs
    \/ ReplyToComment
    \/ PostRequest
    \/ ReplyPosted
    \/ Unanswered

Spec == Init /\ [][Next]_vars

-----------------------------------------------------------------------------
(* Vocabulary of the properties *)

\* A read's answer is a failure: any status but 200, or no answer.
Failing(ans) ==
    ans.kind = "transport" \/ (ans.kind = "http" /\ ans.code # 200)

Steps ==
    <<"parse_target", "main", "get_pr_info", "get_issue_comments", "get_review_comments",
      "get_reviews", "resolve", "filter", "return", "render", "done">>

Rank(p) == CHOOSE i \in 1..Len(Steps) : Steps[i] = p

\* The read an endpoint belongs to.
ReadOf(e) == CHOOSE p \in Fetches \cup {"get_pr_info"} : Endpoint(p) = e

\* The run is a reply: main was given --reply, or a script calls
\* reply_to_comment.
ReplyRun == args.reply # 0 \/ caller = "script"

\* Where an aggregation run is, or where it was when it exited.
At ==
    CASE pc = "exit" ->
            IF calls = <<>> THEN "main"
            ELSE ReadOf(calls[Len(calls)].endpoint)
      [] pc = "crashed" -> IF result = <<>> THEN "main" ELSE "render"
      [] pc = "blocked" ->
            IF calls[Len(calls)].api = "graphql" THEN "resolve"
            ELSE ReadOf(calls[Len(calls)].endpoint)
      [] OTHER -> pc

\* The paginated read f has returned to fetch_all_comments.
Returned(f) == ~ReplyRun /\ Rank(At) > Rank(f)

\* What the paginated read f handed to fetch_all_comments.
Fetched(f) ==
    CASE f = "get_issue_comments" -> issue_comments
      [] f = "get_review_comments" -> fetched_review_comments
      [] f = "get_reviews" -> reviews

\* The page numbers requested of f's endpoint, in request order.
PagesOf(f) ==
    LET cs == SelectSeq(calls, LAMBDA c : c.method = "GET"
                                             /\ c.endpoint = Endpoint(f))
    IN  [i \in 1..Len(cs) |-> cs[i].page]

CeilDiv(a, b) == (a + b - 1) \div b

\* fetch_all_comments has run past the filter (or skipped it).
Assembled == pc \in {"return", "render", "done"}

-----------------------------------------------------------------------------
(* Properties *)

\* C1: a paginated read of a collection of N items requests pages 1, 2, 3, ...
\* in increasing order, none twice, never goes past a page that is empty or
\* shorter than per_page, and once it has returned it has made exactly
\* ceil((N+1)/per_page) requests, the last one for the first short or empty
\* page, and has handed back exactly the N items in server order.
C1_PaginationExhaustion ==
    \A f \in Fetches :
        LET pages == PagesOf(f)
            coll == Served(f)
        IN  /\ pages = [i \in 1..Len(pages) |-> i]
            /\ \A i \in 1..(Len(pages) - 1) :
                   Len(PageOf(coll, i)) = per_page
            /\ Returned(f) =>
                   /\ Len(pages) = CeilDiv(Len(coll) + 1, per_page)
                   /\ Len(PageOf(coll, Len(pages))) < per_page
                   /\ Fetched(f) = coll
                   /\ Len(Fetched(f)) = Len(coll)

\* C1 witness: a collection of exactly 2 * per_page items has been read in
\* three requests, the third answered by the empty page.
C1_Witness ==
    /\ Returned("get_reviews")
    /\ Len(srv.reviews) = 2 * per_page
    /\ PagesOf("get_reviews") = <<1, 2, 3>>
    /\ PageOf(srv.reviews, 3) = <<>>
    /\ reviews = srv.reviews

\* C2: a page request that fails (status other than 200, or no answer) is the
\* last request of the run; the run has exited, the read it belongs to has
\* handed nothing to its caller and no dict was returned or rendered.
C2_PageFailureFailsFetch ==
    \A i \in 1..Len(calls) :
        LET c == calls[i]
        IN  (c.api = "rest" /\ c.page >= 1 /\ Failing(c.answer)) =>
                /\ i = Len(calls)
                /\ pc = "exit"
                /\ Fetched(ReadOf(c.endpoint)) = <<>>
                /\ result = <<>>
                /\ ~rendered

\* C2 witness: page 2 failed after page 1 had delivered a full page.
C2_Witness ==
    /\ pc = "exit"
    /\ calls # <<>>
    /\ calls[Len(calls)].page = 2
    /\ Failing(calls[Len(calls)].answer)
    /\ Len(all_items) = per_page

\* C3: with status "open" the review comments handed back are exactly the
\* fetched ones whose id is not in the oracle's set, with "resolved" exactly
\* those whose id is in it, in fetch order (a subsequence, nothing repeated).
C3_StatusFilterSelects ==
    (Assembled /\ status \in {"open", "resolved"}) =>
        LET R == resolved_comment_ids
            kept ==
              IF status = "open"
              THEN SelectSeq(fetched_review_comments, LAMBDA c : c \notin R)
              ELSE SelectSeq(fetched_review_comments, LAMBDA c : c \in R)
        IN  /\ review_comments = kept
            /\ Range(review_comments) =
                  IF status = "open"
                  THEN Range(fetched_review_comments) \ R
                  ELSE Range(fetched_review_comments) \cap R
            /\ Cardinality(Range(review_comments)) = Len(review_comments)
            /\ result # <<>> => result[1].review_comments = kept

\* C3 witness: an "open" run, newest-first comments 3, 2, 1, returned some but
\* not all of them because the oracle named some ids.
C3_Witness ==
    /\ pc = "done"
    /\ status = "open"
    /\ fetched_review_comments = <<3, 2, 1>>
    /\ resolved_comment_ids # {}
    /\ Len(result[1].review_comments) = 2

\* The oracle had nothing to tell: no credential, a failed call, or a good
\* response without threads.
Degraded ==
    /\ status # "all"
    /\ \/ ~token
       \/ graph.kind = "transport"
       \/ graph.kind = "http" /\ (graph.code # 200 \/ graph.errors)
       \/ graph.kind = "http" /\ graph.code = 200 /\ ~graph.errors
             /\ srv.threads = <<>>

GraphFailed ==
    \/ graph.kind = "transport"
    \/ graph.kind = "http" /\ (graph.code # 200 \/ graph.errors)

OracleAdvisories ==
    {"Warning: Could not fetch resolved status via GraphQL: {e}",
     "GraphQL API returned status {code}: {error_body}",
     "GraphQL API errors: {errors}"}

\* C5: after a failed graph call the run has not exited: the oracle printed
\* an advisory and returned the empty set, the run can always take its next
\* step, and it ends with the dict returned and exit status 0.
C5_OracleFailureNotFatal ==
    GraphFailed =>
        /\ pc \in {"filter", "return", "render", "done"}
        /\ exit_code # 1
        /\ resolved_comment_ids = {}
        /\ \E i \in 1..Len(stderr) : stderr[i].msg \in OracleAdvisories
        /\ pc # "done" => ENABLED Next
        /\ pc = "done" => result # <<>> /\ exit_code = 0

\* C5 witness: the graph API did not answer and the run ended with a dict.
C5_Witness ==
    /\ graph.kind = "transport"
    /\ pc = "done"
    /\ result # <<>>
    /\ srv.threads # <<>>

\* C6: whatever the status filter and the oracle's outcome, the dict holds
\* the issue comments and the reviews exactly as read from the REST API.
C6_OnlyReviewCommentsFiltered ==
    result # <<>> =>
        /\ result[1].issue_comments = Fetched("get_issue_comments")
        /\ result[1].issue_comments = srv.issue
        /\ result[1].reviews = Fetched("get_reviews")
        /\ result[1].reviews = srv.reviews

\* C6 witness: a "resolved" run dropped review comments and kept a two-page
\* list of issue comments and the reviews whole.
C6_Witness ==
    /\ result # <<>>
    /\ status = "resolved"
    /\ Len(srv.issue) = per_page + 1
    /\ srv.reviews # <<>>
    /\ result[1].review_comments # fetched_review_comments
    /\ result[1].issue_comments = srv.issue

\* C7: with status "all" no request goes to the graph API, the oracle is not
\* entered, and the review comments are handed back as fetched.
C7_AllSkipsOracle ==
    status = "all" =>
        /\ \A i \in 1..Len(calls) : calls[i].api # "graphql"
        /\ pc \notin {"resolve", "filter"}
        /\ graph = NoAnswer
        /\ Assembled => review_comments = fetched_review_comments
        /\ result # <<>> => result[1].review_comments = srv.review

\* C7 witness: an "all" run with a credential ended with a two-page list.
C7_Witness ==
    /\ status = "all"
    /\ token
    /\ pc = "done"
    /\ Len(result[1].review_comments) = per_page + 1

\* The databaseIds of the members of the resolved threads of the response.
ResolvedMembers ==
    UNION {Range(srv.threads[t].comments) \ {NoId} :
             t \in {x \in 1..Len(srv.threads) : srv.threads[x].isResolved}}

\* C8: after a 200 response without error list the oracle's set is exactly
\* the set of databaseIds of the members of the resolved threads.
C8_ResolvedIdsExact ==
    (graph.kind = "http" /\ graph.code = 200 /\ ~graph.errors) =>
        resolved_comment_ids = ResolvedMembers

\* C8 witness: threads [{resolved, 1 2}, {unresolved, 3}] gave {1, 2}.
C8_Witness ==
    /\ graph.kind = "http" /\ graph.code = 200 /\ ~graph.errors
    /\ srv.threads = <<[isResolved |-> TRUE, comments |-> <<1, 2>>],
                       [isResolved |-> FALSE, comments |-> <<3>>]>>
    /\ resolved_comment_ids = {1, 2}

ErrorMessages ==
    {"Error: Authentication failed. Check your GitHub token.",
     "Error: Not found. Check owner/repo/PR number.",
     "Error: Rate limit exceeded or access denied.",
     "Error: HTTP {status_code}",
     "Error: HTTP {code} - {reason}",
     "Error: {reason}"}

\* C9: once any of the four reads has failed, the run has ended with exit
\* status 1 and an error message as the last line on stderr, and no dict was
\* returned or handed to an output path.
C9_ReadFailureIsFatal ==
    (\E i \in 1..Len(calls) :
        /\ calls[i].api = "rest" /\ calls[i].method = "GET"
        /\ Failing(calls[i].answer)) =>
        /\ pc = "exit"
        /\ exit_code = 1
        /\ stderr[Len(stderr)].msg \in ErrorMessages
        /\ result = <<>>
        /\ ~rendered

\* C9 witness: the reviews read failed after the three reads before it had
\* succeeded.
C9_Witness ==
    /\ pc = "exit"
    /\ calls # <<>>
    /\ calls[Len(calls)].method = "GET"
    /\ calls[Len(calls)].endpoint = Endpoint("get_reviews")
    /\ pr_info # None
    /\ issue_comments # <<>>
    /\ fetched_review_comments # <<>>
    /\ exit_code = 1

\* The error outcome a diagnostic stands for.
ErrorClass(d) ==
    CASE d.msg = "Error: Authentication failed. Check your GitHub token."
           -> "AuthError"
      [] d.msg = "Error: Not found. Check owner/repo/PR number."
           -> "NotFoundError"
      [] d.msg = "Error: Rate limit exceeded or access denied."
           -> "RateLimitOrForbiddenError"
      [] d.msg = "Error: HTTP {status_code}" -> "UnexpectedStatusError"
      [] d.msg = "Error: HTTP {code} - {reason}" -> "UnexpectedStatusError"
      [] d.msg = "Error: {reason}" -> "TransportError"
      [] d.msg = "Error: Not found. Check owner/repo/PR number/comment ID."
           -> "NotFoundError"
      [] d.msg = "Error: HTTP {code}: {reason}" -> "UnexpectedStatusError"
      [] d.msg = "Error: Failed to connect to GitHub API: {reason}"
           -> "TransportError"
      [] OTHER -> "none"

\* The error outcome the mapping of the design gives an answer.
ExpectedClass(ans) ==
    IF ans.kind = "transport" THEN "TransportError"
    ELSE IF ans.code = 401 THEN "AuthError"
    ELSE IF ans.code = 404 THEN "NotFoundError"
    ELSE IF ans.code = 403 THEN "RateLimitOrForbiddenError"
    ELSE "UnexpectedStatusError"

\* C10: a failed page request ends in the error outcome of its answer: 401
\* AuthError, 404 NotFoundError, 403 RateLimitOrForbiddenError, any other
\* status UnexpectedStatusError, no answer TransportError.
C10_ErrorMapping ==
    (pc = "exit" /\ calls # <<>> /\ calls[Len(calls)].page >= 1) =>
        ErrorClass(stderr[Len(stderr)]) = ExpectedClass(calls[Len(calls)].answer)

-----------------------------------------------------------------------------
(* Vocabulary of the properties of the error outcomes and of the reply path *)

LastCall == calls[Len(calls)]

\* The run ended in the failure of its last request.
CallFailed == pc = "exit" /\ calls # <<>>

\* What the failed request printed: stderr without the progress line of
\* fetch_all_comments and the warning of reply_to_comment.
Outcome ==
    SelectSeq(stderr,
              LAMBDA l : /\ l.msg # "Fetching comments for PR #{pr_number}..."
                         /\ l # ReviewWarning)

\* The mutating requests of the run, in order.
Posts == SelectSeq(calls, LAMBDA c : c.api = "rest" /\ c.method = "POST")

\* A mutation's answer is a failure: a status other than 200 and 201, or no
\* answer.
PostFailing(ans) ==
    ans.kind = "transport" \/ (ans.kind = "http" /\ ans.code \notin {200, 201})

\* The run is over.
Ended == pc \in {"exit", "done", "returned", "crashed"}

\* C11: when a request is answered with 403 and an X-RateLimit-Remaining
\* header, the error outcome reports the value of that header.
C11_RateLimitRemainingReported ==
    (/\ CallFailed
     /\ LastCall.answer.kind = "http"
     /\ LastCall.answer.code = 403
     /\ LastCall.answer.remaining # None) =>
        \E i \in 1..Len(Outcome) : Outcome[i].text = LastCall.answer.remaining

\* C12: when a read or a mutation is answered with a failing status other
\* than 401, 403 and 404, the error outcome carries the status code and the
\* body of the response.
C12_UnexpectedStatusCarriesBody ==
    (/\ CallFailed
     /\ LastCall.answer.kind = "http"
     /\ LastCall.answer.code \notin {401, 403, 404}) =>
        /\ \E i \in 1..Len(Outcome) : Outcome[i].code = LastCall.answer.code
        /\ \E i \in 1..Len(Outcome) : Outcome[i].text = LastCall.answer.body

\* C13: get_pr_info and the POST branch put a failing answer into the error
\* class the paginated GET branch puts that answer into: 401, 404, 403, any
\* other failing status and a transport failure are classified alike on the
\* three paths.
C13_SameErrorMapping ==
    (CallFailed /\ LastCall.api = "rest" /\ LastCall.page = 0) =>
        /\ Outcome # <<>>
        /\ page_error(urlopen(LastCall.answer)) # <<>>
        /\ ErrorClass(Outcome[1]) =
              ErrorClass(page_error(urlopen(LastCall.answer))[1])
        /\ ErrorClass(Outcome[1]) # "none"

\* C13 witness: a POST answered 404 ended in the class the GET branch gives a
\* 404.
C13_Witness ==
    /\ CallFailed
    /\ LastCall.method = "POST"
    /\ LastCall.answer.code = 404
    /\ ErrorClass(Outcome[1]) =
          ErrorClass(page_error(urlopen(LastCall.answer))[1])

\* C14: a read (a page, the PR metadata) that is answered succeeds on status
\* 200 and on no other answer; a POST succeeds on status 200 or 201 and on no
\* other answer.
\* A failed request ends the run with status 1; a successful POST hands the
\* created comment back.
C14_SuccessStatuses ==
    \A i \in 1..Len(calls) :
        LET c == calls[i]
            failed == i = Len(calls) /\ pc = "exit" /\ exit_code = 1
        IN  (c.api = "rest" /\ c.answer.kind # "silent") =>
                /\ c.method = "GET" =>
                      (~failed <=>
                          (c.answer.kind = "http" /\ c.answer.code = 200))
                /\ c.method = "POST" =>
                      /\ ~failed <=>
                            (/\ c.answer.kind = "http"
                             /\ c.answer.code \in {200, 201})
                      /\ ~failed <=> reply_result # <<>>

\* C14 witness: a POST answered 201 handed back the created comment.
C14_Witness ==
    /\ Posts # <<>>
    /\ Posts[1].answer.code = 201
    /\ reply_result # <<>>
    /\ pc = "done"
    /\ exit_code = 0

\* C15: a reply run without a credential never issues a request: whatever
\* the comment type and the body, it goes on until it has exited with status 1
\* and no comment was created.
C15_NoCredentialNoRequest ==
    (ReplyRun /\ ~token) =>
        /\ calls = <<>>
        /\ req = NoReq
        /\ reply_result = <<>>
        /\ pc \in {"main", "reply_to_comment", "exit"}
        /\ pc = "exit" => exit_code = 1
        /\ pc # "exit" => exit_code = -1 /\ ENABLED Next

\* C15 witness: reply_to_comment, called without a token for an issue comment
\* and a body, has exited with its own message and no request.
C15_Witness ==
    /\ caller = "script"
    /\ ~token
    /\ reply_call.comment_type = "issue"
    /\ reply_call.reply_body = "LGTM"
    /\ pc = "exit"
    /\ stderr = <<Diag("Error: GitHub token is required for posting replies",
                       0)>>
    /\ calls = <<>>

\* The body the reply is to post is empty: reply_to_comment is called with
\* "", or main is given an empty --reply-body and no file, or a file that is
\* empty.
EmptyBody ==
    \/ caller = "script" /\ reply_call.reply_body = ""
    \/ /\ args.reply # 0
       /\ IF truthy(args.reply_body_file)
          THEN exists(args.reply_body_file) /\ read(args.reply_body_file) = ""
          ELSE args.reply_body = ""

\* C16: a reply whose body is empty, given as argument or read from an empty
\* file, issues no request and ends with exit status 1, whatever the comment
\* type.
C16_EmptyBodyRejected ==
    (ReplyRun /\ EmptyBody) =>
        /\ calls = <<>>
        /\ Ended => pc = "exit" /\ exit_code = 1

\* C17: every POST of a reply to a review comment goes to the replies
\* endpoint of that comment id with the payload {body}; every POST of a reply
\* to an issue comment goes to the issue-comment endpoint with the payload
\* {body, in_reply_to: comment id}; main hands over the id and type of its
\* arguments.
C17_ReplyRouting ==
    /\ (caller = "main" /\ reply_call # NoCall) =>
          /\ reply_call.comment_id = args.reply
          /\ reply_call.comment_type = args.comment_type
    /\ \A i \in 1..Len(Posts) :
          /\ reply_call.comment_type = "review_comment" =>
                /\ Posts[i].endpoint =
                      "/pulls/{pr_number}/comments/"
                          \o ToString(reply_call.comment_id) \o "/replies"
                /\ Posts[i].data =
                      [body |-> reply_call.reply_body, in_reply_to |-> <<>>]
          /\ reply_call.comment_type = "issue" =>
                /\ Posts[i].endpoint = "/issues/{pr_number}/comments"
                /\ Posts[i].data =
                      [body |-> reply_call.reply_body,
                       in_reply_to |-> <<reply_call.comment_id>>]

\* C17 witness: the reply to issue comment 2 was posted with in_reply_to 2.
C17_Witness ==
    /\ Posts # <<>>
    /\ reply_call.comment_type = "issue"
    /\ reply_call.comment_id = 2
    /\ Posts[1].data.in_reply_to = <<2>>
    /\ Posts[1].data.body = "LGTM"

\* C18: a reply to a review is posted to the issue-comment endpoint with the
\* payload {body}, without in_reply_to; the warning is on stderr when the
\* request is built and not yet issued, and so in every run that posts.
C18_ReviewReplyDegrades ==
    (ReplyRun /\ reply_call.comment_type = "review") =>
        /\ pc = "post" =>
              /\ calls = <<>>
              /\ ReviewWarning \in Range(stderr)
              /\ req.endpoint = "/issues/{pr_number}/comments"
              /\ req.data.in_reply_to = <<>>
        /\ \A i \in 1..Len(Posts) :
              /\ ReviewWarning \in Range(stderr)
              /\ Posts[i].endpoint = "/issues/{pr_number}/comments"
              /\ Posts[i].data =
                    [body |-> reply_call.reply_body, in_reply_to |-> <<>>]

\* C18 witness: the reply to a review was posted after the warning.
C18_Witness ==
    /\ reply_call.comment_type = "review"
    /\ Posts # <<>>
    /\ stderr[1] = ReviewWarning
    /\ Posts[1].endpoint = "/issues/{pr_number}/comments"
    /\ pc = "done"

\* The comment type handed to reply_to_comment is none of the three it knows.
UnknownType ==
    /\ reply_call # NoCall
    /\ reply_call.comment_type \notin CommentTypes

\* C19 as stated: a reply with a comment type outside the three known ones
\* issues no request and exits with an error that names the type.
C19_UnknownTypeAlwaysNamed ==
    (UnknownType /\ Ended) =>
        /\ calls = <<>>
        /\ exit_code = 1
        /\ stderr[Len(stderr)].text = reply_call.comment_type

\* C19: a reply with a comment type outside the three known ones issues no
\* request and exits with status 1; when the client has a token the error
\* names the type, when it has none the error is the one of the credential
\* check, which comes first.
C19_UnknownTypeRejected ==
    UnknownType =>
        /\ calls = <<>>
        /\ req = NoReq
        /\ pc \in {"reply_to_comment", "exit"}
        /\ pc = "exit" =>
              /\ exit_code = 1
              /\ token =>
                    /\ stderr[Len(stderr)].text = reply_call.comment_type
                    /\ stderr[Len(stderr)].msg =
                          "Error: Unknown comment type: {comment_type}"
              /\ ~token =>
                    stderr[Len(stderr)].msg =
                        "Error: GitHub token is required for posting replies"

\* C19 witness: with a token, the type "discussion" was refused by name.
C19_Witness ==
    /\ UnknownType
    /\ token
    /\ pc = "exit"
    /\ stderr = <<Line("Error: Unknown comment type: {comment_type}", 0,
                       "discussion")>>
    /\ calls = <<>>

\* What reply needs to go ahead: main's arguments complete and the body file
\* there, a token, a known comment type.
PreconditionsHold ==
    IF caller = "script"
    THEN token /\ reply_call.comment_type \in CommentTypes
    ELSE /\ args.comment_type # None
         /\ truthy(args.reply_body) \/ truthy(args.reply_body_file)
         /\ args.token
         /\ truthy(args.reply_body_file) => exists(args.reply_body_file)

\* C20: a reply run issues at most one POST and no other request: none when
\* a precondition fails, exactly one by the time it ends when they all hold;
\* after a POST that failed the run has exited and takes no further step.
C20_OneMutatingCall ==
    ReplyRun =>
        /\ Len(Posts) <= 1
        /\ Len(calls) = Len(Posts)
        /\ ~PreconditionsHold => Len(Posts) = 0
        /\ (Ended /\ PreconditionsHold) => Len(Posts) = 1
        /\ (~Ended /\ pc # "blocked") => ENABLED Next
        /\ (Posts # <<>> /\ PostFailing(Posts[1].answer)) =>
              /\ pc = "exit"
              /\ exit_code = 1
              /\ reply_result = <<>>
              /\ ~ENABLED Next

\* C20 witness: the one POST got no answer and the run has exited.
C20_Witness ==
    /\ ReplyRun
    /\ PreconditionsHold
    /\ Len(Posts) = 1
    /\ Posts[1].answer.kind = "transport"
    /\ pc = "exit"

-----------------------------------------------------------------------------
(* Properties of the credential, of the oracle's one request and of the    *)
(* separation of the two paths                                              *)

\* The requests sent to the graph API, in order.
GraphCalls == SelectSeq(calls, LAMBDA c : c.api = "graphql")

\* The REST reads of the run, in order.
Reads == SelectSeq(calls, LAMBDA c : c.api = "rest" /\ c.method = "GET")

NoTokenWarning ==
    Diag("Warning: No GitHub token provided. Cannot check resolved status. Showing all comments.", 0)

\* main called fetch_all_comments: the run is neither a reply nor a --detail
\* run and is past main's dispatch.
InAggregation ==
    /\ ~ReplyRun
    /\ args.detail = 0
    /\ Rank(At) > Rank("main")

\* C22: an aggregation without a credential whose reads are all answered 200
\* does not fail: whatever the status filter, fetch_all_comments has not
\* made the process exit, it can go on until it returns, and once it has
\* returned main holds its dict, with the pr_info and the issue comments of
\* the server.
C22_NoCredentialStillAggregates ==
    (/\ InAggregation
     /\ ~token
     /\ \A i \in 1..Len(Reads) :
           Reads[i].answer.kind = "http" /\ Reads[i].answer.code = 200) =>
        /\ pc # "exit"
        /\ Rank(At) < Rank("render") => exit_code = -1 /\ ENABLED Next
        /\ Rank(At) >= Rank("render") =>
              /\ result # <<>>
              /\ result[1].pr_info = srv.pr
              /\ result[1].issue_comments = srv.issue
              /\ result[1].reviews = srv.reviews

\* C22 witness: without a credential and with status "resolved" the run is
\* done with a dict that holds the issue comments and no review comment.
C22_Witness ==
    /\ ~ReplyRun
    /\ ~token
    /\ status = "resolved"
    /\ pc = "done"
    /\ srv.review # <<>>
    /\ result # <<>>
    /\ result[1].review_comments = <<>>
    /\ result[1].issue_comments = srv.issue

\* The other preconditions of a reply hold: main's arguments are complete
\* and the body file is there, the comment type is known.
OtherPreconditionsHold ==
    IF caller = "script"
    THEN reply_call.comment_type \in CommentTypes
    ELSE /\ args.comment_type # None
         /\ truthy(args.reply_body) \/ truthy(args.reply_body_file)
         /\ truthy(args.reply_body_file) => exists(args.reply_body_file)

\* C23: the credential of a run is the token given explicitly or the one of
\* the environment; a reply whose other preconditions hold and that has a
\* credential from either source goes on to its POST, and a reply is refused
\* for lack of a credential only when the client has none.
C23_CredentialFromEitherSource ==
    ReplyRun =>
        /\ (Ended /\ token /\ OtherPreconditionsHold) => Len(Posts) = 1
        /\ (pc = "exit" /\ stderr # <<>>
              /\ stderr[Len(stderr)].msg \in
                    {"Error: --token is required for --reply",
                     "Error: GitHub token is required for posting replies"})
              => ~token

\* C24: without a credential the oracle hands back the empty set, no request
\* goes to the graph API, and the warning is on stderr as soon as the oracle
\* has returned.
C24_NoCredentialOracleDegrades ==
    (~ReplyRun /\ ~token) =>
        /\ GraphCalls = <<>>
        /\ graph = NoAnswer
        /\ resolved_comment_ids = {}
        /\ pc = "resolve" => NoTokenWarning \notin Range(stderr)
        /\ pc = "filter" => stderr[Len(stderr)] = NoTokenWarning
        /\ (status # "all" /\ pc \in {"filter", "return", "render", "done"})
              => Len(SelectSeq(stderr, LAMBDA d : d = NoTokenWarning)) = 1

\* C24 witness: the oracle has just returned without a token.
C24_Witness ==
    /\ ~token
    /\ pc = "filter"
    /\ calls # <<>>
    /\ \A i \in 1..Len(calls) : calls[i].api = "rest"
    /\ stderr[Len(stderr)] = NoTokenWarning
    /\ resolved_comment_ids = {}

\* C25: a run sends at most one request to the graph API, whether it is
\* answered well or not; that request is the last of the run and comes after
\* the four reads have returned, each answered 200 to the end.
C25_OneGraphRequest ==
    /\ Len(GraphCalls) <= 1
    /\ GraphCalls # <<>> =>
          /\ calls[Len(calls)].api = "graphql"
          /\ \A i \in 1..(Len(calls) - 1) :
                /\ calls[i].api = "rest" /\ calls[i].method = "GET"
                /\ calls[i].answer.kind = "http" /\ calls[i].answer.code = 200
          /\ pr_info = srv.pr
          /\ \A f \in Fetches : Returned(f) /\ Fetched(f) = Served(f)
          /\ pc \in {"filter", "return", "render", "done", "crashed",
                     "blocked"}

\* C25 witness: the one graph request failed, after reads of two pages, and
\* the run went on to its end without another.
C25_Witness ==
    /\ Len(GraphCalls) = 1
    /\ GraphCalls[1].answer.code = 500
    /\ Len(srv.issue) = per_page
    /\ Len(calls) > 5
    /\ pc = "done"

\* C27: a reply run sends no read and no graph query, is never at a
\* statement of fetch_all_comments or of the output, and ends without a dict
\* returned or rendered.
C27_ReplyBypassesAggregation ==
    ReplyRun =>
        /\ Reads = <<>>
        /\ GraphCalls = <<>>
        /\ pc \in {"main", "reply_to_comment", "post", "replied", "returned",
                   "done", "exit", "blocked"}
        /\ result = <<>>
        /\ ~rendered
        /\ pr_info = None
        /\ pc = "done" => reply_result # <<>> /\ ~ENABLED Next

\* C27 witness: main's reply was posted and the run is over, one request in
\* the log.
C27_Witness ==
    /\ args.reply # 0
    /\ pc = "done"
    /\ Len(calls) = 1
    /\ calls[1].method = "POST"
    /\ stdout # <<>>
    /\ result = <<>>

\* The endpoints the reads of fetch_all_comments request.
ReadEndpoints == {Endpoint(p) : p \in Fetches \cup {"get_pr_info"}}

\* C30: an aggregation sends GET requests to its four read endpoints and
\* nothing else to the REST API; the one POST it can send is the graph query.
C30_AggregationIsReadOnly ==
    ~ReplyRun =>
        /\ \A i \in 1..Len(calls) :
              /\ calls[i].api = "rest" =>
                    /\ calls[i].method = "GET"
                    /\ calls[i].endpoint \in ReadEndpoints
                    /\ calls[i].data = NoData
              /\ calls[i].method = "POST" =>
                    calls[i].api = "graphql" /\ calls[i].endpoint = "/graphql"
        /\ Posts = <<>>
        /\ Len(SelectSeq(calls, LAMBDA c : c.method = "POST")) <= 1
        /\ reply_result = <<>>

\* C30 witness: a run with a token and status "open" is done: five GETs of
\* the issue comments among its reads, one POST, to the graph API.
C30_Witness ==
    /\ ~ReplyRun
    /\ pc = "done"
    /\ Len(srv.issue) = 2 * per_page
    /\ Len(GraphCalls) = 1
    /\ Len(Reads) = Len(calls) - 1
    /\ calls[Len(calls)].method = "POST"

-----------------------------------------------------------------------------
(* Properties of main's dispatch, of parse_pr_url, of the output paths and  *)
(* of a server that does not answer                                         *)

\* The string is a URL of the form <scheme>//<host>/<owner>/<repo>/pull/<number>.
PullUrl(url) ==
    /\ Len(url) = 7
    /\ url[1] \in {"http:", "https:"}
    /\ url[2] = ""
    /\ url[4] # ""
    /\ url[5] # ""
    /\ url[6] = "pull"
    /\ url[7] \in {"42", "007"}

\* main took its positional argument for a URL and parse_pr_url has
\* returned or raised.
UrlParsed ==
    /\ pc # "parse_target"
    /\ args.owner_or_url # <<>>
    /\ args.owner_or_url[1] \in HttpPrefixed

FormatError ==
    /\ pc = "exit"
    /\ exit_code = 1
    /\ target = NoTarget
    /\ calls = <<>>
    /\ stderr = <<Diag("Error: Invalid PR URL format: {url}", 0)>>

\* The number a segment of digits stands for, by its decimal places.
Decimal(seg) ==
    CASE seg = "42" -> 4 * 10 + 2
      [] seg = "007" -> (0 * 10 + 0) * 10 + 7

\* C21 as stated: whatever the host, a URL of the form
\* .../<owner>/<repo>/pull/<number> is mapped to the owner, the repository
\* and the number as an integer, and every other string is refused with a
\* format error.
C21_AnyHostParsed ==
    UrlParsed =>
        IF PullUrl(args.owner_or_url)
        THEN /\ pc # "exit"
             /\ target = [owner |-> args.owner_or_url[4],
                          repo |-> args.owner_or_url[5],
                          pr_number |-> Decimal(args.owner_or_url[7])]
        ELSE FormatError

\* The text github.com/<owner>/<repo>/pull/<digits> begins in segment i.
GithubPullAt(url, i) ==
    /\ i + 4 <= Len(url)
    /\ url[i] \in GithubSuffixed
    /\ url[i + 1] # "" /\ url[i + 2] # ""
    /\ url[i + 3] = "pull"
    /\ url[i + 4] \in {"42", "007", "42abc"}

\* What parse_pr_url does, for comparison with C21 as stated: a string that
\* holds github.com/<owner>/<repo>/pull/<digits> is mapped
\* to the owner, the repository and the digits as an integer of its first
\* such place, whatever surrounds it; a URL of that form on a host whose name
\* ends with github.com is one of them. Every other string, a URL of that
\* form on another host included, is refused with the format error before
\* any request.
GithubUrlParsed ==
    UrlParsed =>
        LET url == args.owner_or_url
            places == {i \in 1..Len(url) : GithubPullAt(url, i)}
        IN  /\ places = {} <=> FormatError
            /\ \A i \in places :
                  (\A k \in places : i <= k) =>
                     /\ pc # "exit" \/ calls # <<>>
                     /\ target.owner = url[i + 1]
                     /\ target.repo = url[i + 2]
                     /\ target.pr_number =
                           (IF url[i + 4] = "007" THEN 7 ELSE 42)
            /\ (PullUrl(url) /\ url[3] \in GithubSuffixed) =>
                  target = [owner |-> url[4], repo |-> url[5],
                            pr_number |-> Decimal(url[7])]

\* https://github.com/acme/widget/pull/007 was parsed to (acme, widget, 7)
\* and the run went on to its reads.
GithubUrlParsed_Witness ==
    /\ args.owner_or_url =
          <<"https:", "", "github.com", "acme", "widget", "pull", "007">>
    /\ target = [owner |-> "acme", repo |-> "widget", pr_number |-> 7]
    /\ pc = "get_issue_comments"

\* C26: a call the server never answers is ended by a timeout and handled as
\* a transport failure: a read or a POST has made the process exit with
\* status 1 and the transport diagnostic, the oracle has gone on without
\* resolved ids; no run is left waiting with no step to take.
C26_UnansweredCallTimesOut ==
    /\ \A i \in 1..Len(calls) :
          calls[i].answer.kind = "silent" =>
             IF calls[i].api = "rest"
             THEN /\ pc = "exit"
                  /\ exit_code = 1
                  /\ stderr[Len(stderr)].msg = "Error: {reason}"
             ELSE /\ pc \in {"filter", "return", "render", "done", "crashed"}
                  /\ resolved_comment_ids = {}
    /\ ~Ended => ENABLED Next

\* What an output path shows for a body that is the empty string.
EmptyShown(path, kind) ==
    CASE path = "text" -> format_comment("", kind)
      [] path = "table" -> truncate("")
      [] path = "csv" -> csv_cell("").cell
      [] path = "json" -> json_dumps("")

\* C28: a dict with a comment whose body is null goes through whichever
\* output path the options choose without an error, the process ends with
\* status 0, and the comment is shown as one with an empty body is.
C28_NullBodyShownEmpty ==
    (rendered /\ srv.null_body # {}) =>
        /\ pc = "done"
        /\ exit_code = 0
        /\ \A i \in 1..Len(stdout) :
              <<stdout[i].kind, stdout[i].id>> \in srv.null_body =>
                 stdout[i].body =
                    EmptyShown(output_path(args), stdout[i].kind)

\* C29: a run with --detail and --comment-type that has ended has printed
\* the comment and ended with status 0, or has printed that the comment was
\* not found and ended with status 1; it made no read of the aggregation.
C29_DetailOutputsOrNotFound ==
    (/\ caller = "main"
     /\ args.reply = 0
     /\ args.detail # 0
     /\ args.comment_type # None
     /\ pc # "main") =>
        /\ Reads = <<>>
        /\ result = <<>>
        /\ \/ pc = "done" /\ exit_code = 0 /\ stdout # <<>>
           \/ /\ pc = "exit"
              /\ exit_code = 1
              /\ stderr = <<Diag("Error: Comment {id} not found", 0)>>
====
